---------------------------- MODULE Spec2Model ----------------------------
(***************************************************************************)
(* Canonical Event Log (package cel) and the PCR sealing scenarios of      *)
(* package tpm2tools.                                                      *)
(*                                                                         *)
(* Bytes are the integers 0..255, a []byte is a sequence of bytes, and a   *)
(* bytes.Buffer is the sequence of its unread bytes.  An error is a        *)
(* string; "nil" is the nil error and "EOF" is io.EOF.                     *)
(***************************************************************************)
EXTENDS Integers, Sequences, FiniteSets, TLC

VARIABLES
    Records,    \* CEL.Records of the log under work
    buf,        \* the unread bytes of the bytes.Buffer handed to the codec
    call,       \* the last call made: its name, its arguments, what it returned
    pcrs,       \* the TPM's SHA-256 PCR bank: register -> value
    sealed,     \* the blob the last Seal returned
    resealed,   \* the blob the last Reseal returned
    plan,       \* the predicted extensions a Reseal was given
    hist,       \* what the scenario did to the registers since Seal and Reseal
    producers   \* the goroutines calling AppendEvent on one log: where each is

celVars == <<Records, buf, call>>
tpmVars == <<pcrs, sealed, resealed, plan, hist>>
vars == <<Records, buf, call, pcrs, sealed, resealed, plan, hist, producers>>

(***************************************************************************)
(* Constants of canonical_eventlog.go                                      *)
(***************************************************************************)
recnumTypeValue == 0
pcrTypeValue == 1
digestsTypeValue == 3
tlvTypeFieldLength == 1
tlvLengthFieldLength == 4
recnumValueLength == 8
pcrValueLength == 1

nil == "nil"
EOF == "EOF"

(***************************************************************************)
(* Bounds of the model                                                     *)
(***************************************************************************)
MaxBufLen == 7          \* bytes a caller writes to the buffer (SpecTLV)
MaxRecords == 2         \* records appended to one log (Spec)
MaxArbRecords == 2      \* records of a hand-built log (SpecRecord)
MaxExtends == 3         \* PCR extensions in one scenario (SpecTPM)
MaxCalls == 3           \* calls of AppendEvent by the producers (SpecProducers)

(***************************************************************************)
(* encoding/binary, big endian.  Every length and record number of the     *)
(* model is below 2^31, so the upper four bytes of a uint64 written are    *)
(* zero; a uint64 read with another upper half is 2^32 or more, beyond the *)
(* integers of the model, and 2147483647 stands for it.                    *)
(***************************************************************************)
PutUint32(n) ==
    << (n \div 16777216) % 256, (n \div 65536) % 256, (n \div 256) % 256, n % 256 >>

Uint32(b) == b[1] * 16777216 + b[2] * 65536 + b[3] * 256 + b[4]

PutUint64(n) == <<0, 0, 0, 0>> \o PutUint32(n)

Uint64(b) ==
    IF SubSeq(b, 1, 4) = <<0, 0, 0, 0>> THEN Uint32(SubSeq(b, 5, 8)) ELSE 2147483647

Min(a, b) == IF a < b THEN a ELSE b

\* bytes.Repeat([]byte{b}, n)
Repeat(b, n) == [i \in 1..n |-> b]

(***************************************************************************)
(* TLV                                                                     *)
(***************************************************************************)
TLV(type, value) == [Type |-> type, Value |-> value]

\* The zero value TLV{}.
ZeroTLV == TLV(0, <<>>)

\* (tlv *TLV) MarshalBinary
MarshalBinary(tlv) == <<tlv.Type>> \o PutUint32(Len(tlv.Value)) \o tlv.Value

\* (tlv *TLV) UnmarshalBinary.  On fewer than 5 bytes it panics (slice
\* bounds out of range): at data[1:5] when cap(data) < 5, and otherwise at
\* data[5:], whose low bound exceeds len(data).
UnmarshalBinary(data) ==
    IF Len(data) < tlvTypeFieldLength + tlvLengthFieldLength
    THEN [tlv |-> ZeroTLV, err |-> "panic"]
    ELSE LET valueLength == Uint32(SubSeq(data, tlvTypeFieldLength + 1,
                                          tlvTypeFieldLength + tlvLengthFieldLength))
             value == SubSeq(data, tlvTypeFieldLength + tlvLengthFieldLength + 1, Len(data))
         IN  IF valueLength # Len(value)
             THEN [tlv |-> ZeroTLV, err |-> "TLV Length doesn't match the size of its Value"]
             ELSE [tlv |-> TLV(data[1], value), err |-> nil]

(***************************************************************************)
(* bytes.Buffer, as UnmarshalFirstTLV uses it.                             *)
(*   ReadByte: io.EOF on an empty buffer, else the first byte.             *)
(*   Read(p):  on an empty buffer 0, nil when len(p) = 0 and 0, io.EOF     *)
(*             otherwise; else copies min(len(p), unread) bytes, nil.      *)
(***************************************************************************)
BufReadByte(b) ==
    IF b = <<>> THEN [c |-> 0, err |-> EOF, buf |-> b]
    ELSE [c |-> Head(b), err |-> nil, buf |-> Tail(b)]

\* Read with a fault: io.EOF on every empty buffer, len(p) = 0 included.
BufRead_EOFOnEmpty(b, n) ==
    IF b = <<>>
    THEN [p |-> <<>>, n |-> 0, err |-> EOF, buf |-> b]
    ELSE LET k == Min(n, Len(b))
         IN  [p |-> SubSeq(b, 1, k), n |-> k, err |-> nil, buf |-> SubSeq(b, k + 1, Len(b))]

\* Read with a fault: nothing is read when p cannot be filled.
BufRead_AllOrNothing(b, n) ==
    IF Len(b) < n
    THEN [p |-> <<>>, n |-> 0, err |-> EOF, buf |-> b]
    ELSE [p |-> SubSeq(b, 1, n), n |-> n, err |-> nil, buf |-> SubSeq(b, n + 1, Len(b))]

BufRead(b, n) ==
    IF b = <<>>
    THEN [p |-> <<>>, n |-> 0, err |-> IF n = 0 THEN nil ELSE EOF, buf |-> b]
    ELSE LET k == Min(n, Len(b))
         IN  [p |-> SubSeq(b, 1, k), n |-> k, err |-> nil, buf |-> SubSeq(b, k + 1, Len(b))]

\* What UnmarshalFirstTLV returns on an error, with the buffer as it is then.
tlvError(err, b) == [tlv |-> ZeroTLV, err |-> err, buf |-> b]

\* UnmarshalFirstTLV, in the order of its statements (each step is handed what
\* the steps before it read).
\*   lines 93-96: u is what UnmarshalBinary(data) returned
tlvUnmarshal(u, b) ==
    IF u.err # nil THEN tlvError(u.err, b) ELSE [tlv |-> u.tlv, err |-> nil, buf |-> b]

\*   lines 85-91: rv is what buf.Read(valueBytes) returned
tlvValue(typeByte, lengthBytes, valueLength, rv) ==
    IF rv.err # nil THEN tlvError(rv.err, rv.buf)
    ELSE IF rv.n # valueLength THEN tlvError(EOF, rv.buf)
    ELSE tlvUnmarshal(UnmarshalBinary(<<typeByte>> \o lengthBytes \o rv.p), rv.buf)

\*   lines 74-84: rl is what buf.Read(lengthBytes) returned
tlvLength(typeByte, rl) ==
    IF rl.err # nil THEN tlvError(rl.err, rl.buf)
    ELSE IF rl.n # tlvLengthFieldLength THEN tlvError(EOF, rl.buf)
    ELSE tlvValue(typeByte, rl.p, Uint32(rl.p), BufRead(rl.buf, Uint32(rl.p)))

\*   lines 65-73: rt is what buf.ReadByte() returned
tlvType(rt) ==
    IF rt.err # nil THEN tlvError(rt.err, rt.buf)
    ELSE tlvLength(rt.c, BufRead(rt.buf, tlvLengthFieldLength))

\* UnmarshalFirstTLV(buf): the TLV, the error and the buffer it leaves.
UnmarshalFirstTLV(b) == tlvType(BufReadByte(b))

(***************************************************************************)
(* crypto.Hash and tpm2.Algorithm.  A crypto.Hash is named by a string;    *)
(* Size() is the digest size in bytes.  tpm2.HashToAlgorithm knows no MD5. *)
(***************************************************************************)
HashSize(h) ==
    CASE h = "SHA1" -> 20
      [] h = "SHA256" -> 32
      [] h = "SHA384" -> 48
      [] h = "SHA512" -> 64
      [] h = "MD5" -> 16

HashToAlgorithm(h) ==
    CASE h = "SHA1" -> [alg |-> 4, err |-> nil]
      [] h = "SHA256" -> [alg |-> 11, err |-> nil]
      [] h = "SHA384" -> [alg |-> 12, err |-> nil]
      [] h = "SHA512" -> [alg |-> 13, err |-> nil]
      [] OTHER -> [alg |-> 0, err |-> "hash algorithm not supported"]

\* tpm2.Algorithm(a).Hash()
AlgorithmHash(a) ==
    CASE a = 4 -> [hash |-> "SHA1", err |-> nil]
      [] a = 11 -> [hash |-> "SHA256", err |-> nil]
      [] a = 12 -> [hash |-> "SHA384", err |-> nil]
      [] a = 13 -> [hash |-> "SHA512", err |-> nil]
      [] OTHER -> [hash |-> "", err |-> "hash algorithm not supported"]

\* The orders in which a range over a Go map with key set S may visit it.
Orders(S) ==
    { o \in [1..Cardinality(S) -> S] : \A i, j \in 1..Cardinality(S) : o[i] = o[j] => i = j }

(***************************************************************************)
(* Record fields                                                           *)
(***************************************************************************)
Record(recnum, pcr, digests, content) ==
    [RECNUM |-> recnum, PCR |-> pcr, Digests |-> digests, Content |-> content]

\* The zero value Record{}.
ZeroRecord == Record(ZeroTLV, ZeroTLV, ZeroTLV, ZeroTLV)

\* createRecNumField with a fault: the number is written little endian.
Reverse(q) == [i \in 1..Len(q) |-> q[Len(q) + 1 - i]]
createRecNumField_LittleEndian(recNum) == TLV(recnumTypeValue, Reverse(PutUint64(recNum)))

createRecNumField(recNum) == TLV(recnumTypeValue, PutUint64(recNum))

UnmarshalRecNum(tlv) ==
    IF tlv.Type # recnumTypeValue
    THEN [recnum |-> 0, err |-> "not a recnum field"]
    ELSE IF Len(tlv.Value) # recnumValueLength
    THEN [recnum |-> 0, err |-> "recnum length"]
    ELSE [recnum |-> Uint64(tlv.Value), err |-> nil]

createPCRField(pcrNum) == TLV(pcrTypeValue, <<pcrNum>>)

UnmarshalPCR(tlv) ==
    IF tlv.Type # pcrTypeValue
    THEN [pcrNum |-> 0, err |-> "not a PCR field"]
    ELSE IF Len(tlv.Value) # pcrValueLength
    THEN [pcrNum |-> 0, err |-> "PCR length"]
    ELSE [pcrNum |-> tlv.Value[1], err |-> nil]

\* The loop of createDigestField from the i-th map entry on, visiting the
\* map in the order `order`; acc is what buf holds so far.
RECURSIVE digestFieldLoop(_, _, _, _)
digestFieldLoop(digestMap, order, i, acc) ==
    IF i > Len(order) THEN [tlv |-> TLV(digestsTypeValue, acc), err |-> nil]
    ELSE LET hashAlgo == order[i]
             hash == digestMap[hashAlgo]
             a == HashToAlgorithm(hashAlgo)
         IN  IF Len(hash) # HashSize(hashAlgo)
             THEN [tlv |-> ZeroTLV, err |-> "digest length doesn't match the expected length"]
             ELSE IF a.err # nil THEN [tlv |-> ZeroTLV, err |-> a.err]
             ELSE digestFieldLoop(digestMap, order, i + 1,
                                  acc \o MarshalBinary(TLV(a.alg % 256, hash)))

createDigestField(digestMap, order) == digestFieldLoop(digestMap, order, 1, <<>>)

\* The loop of UnmarshalDigests on buffer b with digestsMap = m;
\* digestsNext is its body after digestTLV, err := UnmarshalFirstTLV(buf)
\* returned r.
RECURSIVE unmarshalDigestsLoop(_, _)
digestsPut(r, h, m) ==
    IF h.err # nil THEN [digestsMap |-> <<>>, err |-> h.err]
    ELSE unmarshalDigestsLoop(r.buf,
             [k \in DOMAIN m \cup {h.hash} |-> IF k = h.hash THEN r.tlv.Value ELSE m[k]])

digestsNext(r, m) ==
    IF r.err = EOF THEN [digestsMap |-> <<>>, err |-> "buffer ends unexpectedly"]
    ELSE IF r.err # nil THEN [digestsMap |-> <<>>, err |-> r.err]
    ELSE digestsPut(r, AlgorithmHash(r.tlv.Type), m)

unmarshalDigestsLoop(b, m) ==
    IF Len(b) = 0 THEN [digestsMap |-> m, err |-> nil]
    ELSE digestsNext(UnmarshalFirstTLV(b), m)

\* UnmarshalDigests: the map (a function from crypto.Hash names) and the error.
UnmarshalDigests(tlv) ==
    IF tlv.Type # digestsTypeValue
    THEN [digestsMap |-> <<>>, err |-> "type of the TLV indicates it doesn't contain digests"]
    ELSE unmarshalDigestsLoop(tlv.Value, <<>>)

(***************************************************************************)
(* Content: what the log needs of an event.  An event of the model is      *)
(* [tlv, fill, fail, short]: GetTLV returns tlv; GenerateDigest fails for  *)
(* the hashes in fail, returns a digest one byte short for those in short, *)
(* and Size() bytes equal to fill otherwise.                               *)
(***************************************************************************)
GenerateDigest(event, h) ==
    IF h \in event.fail THEN [digest |-> <<>>, err |-> "digest error"]
    ELSE IF h \in event.short THEN [digest |-> Repeat(event.fill, HashSize(h) - 1), err |-> nil]
    ELSE [digest |-> Repeat(event.fill, HashSize(h)), err |-> nil]

GetTLV(event) == event.tlv

createCELR(recNum, pcr, digestsmap, event, order) ==
    LET recnumField == createRecNumField(recNum)
        pcrField == createPCRField(pcr)
        d == createDigestField(digestsmap, order)
    IN  IF d.err # nil THEN [celr |-> ZeroRecord, err |-> d.err]
        ELSE [celr |-> Record(recnumField, pcrField, d.tlv, GetTLV(event)), err |-> nil]

\* EncodeCELR with a fault: the PCR field is written before the RECNUM field.
EncodeCELR_PCRFirst(r, b) ==
    b \o MarshalBinary(r.PCR) \o MarshalBinary(r.RECNUM)
      \o MarshalBinary(r.Digests) \o MarshalBinary(r.Content)

\* (r *Record) EncodeCELR: what buf holds afterwards.
EncodeCELR(r, b) ==
    b \o MarshalBinary(r.RECNUM) \o MarshalBinary(r.PCR)
      \o MarshalBinary(r.Digests) \o MarshalBinary(r.Content)

\* (c *CEL) EncodeCEL
RECURSIVE encodeLoop(_, _, _)
encodeLoop(records, i, b) ==
    IF i > Len(records) THEN b ELSE encodeLoop(records, i + 1, EncodeCELR(records[i], b))

EncodeCEL(records, b) == encodeLoop(records, 1, b)

\* What DecodeToCELR returns on an error.
celrError(err, b) == [celr |-> ZeroRecord, err |-> err, buf |-> b]

\* DecodeToCELR, in the order of its statements: each step is handed the
\* TLVs read so far and what the next UnmarshalFirstTLV(buf) returned.
\*   lines 344-355
celrContent(recnum, pcr, digests, r) ==
    IF r.err # nil THEN celrError(r.err, r.buf)
    ELSE [celr |-> Record(recnum, pcr, digests, r.tlv), err |-> nil, buf |-> r.buf]

\*   lines 335-343
celrDigests(recnum, pcr, r) ==
    IF r.err # nil THEN celrError(r.err, r.buf)
    ELSE IF r.tlv.Type # digestsTypeValue
    THEN celrError("digests TLV doesn't have the correct type", r.buf)
    ELSE celrContent(recnum, pcr, r.tlv, UnmarshalFirstTLV(r.buf))

\*   lines 326-334
celrPCR(recnum, r) ==
    IF r.err # nil THEN celrError(r.err, r.buf)
    ELSE IF r.tlv.Type # pcrTypeValue
    THEN celrError("pcr TLV doesn't have the correct type", r.buf)
    ELSE celrDigests(recnum, r.tlv, UnmarshalFirstTLV(r.buf))

\*   lines 317-325
celrRecnum(r) ==
    IF r.err # nil THEN celrError(r.err, r.buf)
    ELSE IF r.tlv.Type # recnumTypeValue
    THEN celrError("recnum TLV doesn't have the correct type", r.buf)
    ELSE celrPCR(r.tlv, UnmarshalFirstTLV(r.buf))

\* DecodeToCELR(buf): the record, the error and the buffer it leaves.
DecodeToCELR(b) == celrRecnum(UnmarshalFirstTLV(b))

\* DecodeToCEL: the records of the CEL returned, the error, the buffer left.
\* decodeLoop is the loop with cel.Records = records; decodeNext is its body
\* after celr, err := DecodeToCELR(buf) returned r.
RECURSIVE decodeLoop(_, _)
\* The loop body with a fault: io.EOF is taken for the end of the log.
decodeNext_EOFEndsLog(r, records) ==
    IF r.err = EOF THEN [cel |-> records, err |-> nil, buf |-> r.buf]
    ELSE IF r.err # nil THEN [cel |-> <<>>, err |-> r.err, buf |-> r.buf]
    ELSE decodeLoop(r.buf, Append(records, r.celr))

decodeNext(r, records) ==
    IF r.err = EOF THEN [cel |-> <<>>, err |-> "buffer ends unexpectedly", buf |-> r.buf]
    ELSE IF r.err # nil THEN [cel |-> <<>>, err |-> r.err, buf |-> r.buf]
    ELSE decodeLoop(r.buf, Append(records, r.celr))

decodeLoop(b, records) ==
    IF Len(b) = 0 THEN [cel |-> records, err |-> nil, buf |-> b]
    ELSE decodeNext(DecodeToCELR(b), records)

DecodeToCEL(b) == decodeLoop(b, <<>>)

\* The GenerateDigest loop of AppendEvent from the i-th algorithm on.
RECURSIVE digestsLoop(_, _, _, _)
digestsLoop(event, hashAlgos, i, m) ==
    IF i > Len(hashAlgos) THEN [digestsMap |-> m, err |-> nil]
    ELSE LET g == GenerateDigest(event, hashAlgos[i])
         IN  IF g.err # nil THEN [digestsMap |-> m, err |-> g.err]
             ELSE digestsLoop(event, hashAlgos, i + 1,
                      [k \in DOMAIN m \cup {hashAlgos[i]} |->
                          IF k = hashAlgos[i] THEN g.digest ELSE m[k]])

\* AppendEvent with a fault: celr is appended before createCELR's error is
\* looked at.
AppendEvent_AppendBeforeCheck(records, pcr, hashAlgos, event, order) ==
    IF Len(hashAlgos) = 0
    THEN [Records |-> records, err |-> "need to specify at least one hash algorithm"]
    ELSE LET d == digestsLoop(event, hashAlgos, 1, <<>>)
         IN  IF d.err # nil THEN [Records |-> records, err |-> d.err]
             ELSE LET c == createCELR(Len(records), pcr % 256, d.digestsMap, event, order)
                  IN  [Records |-> Append(records, c.celr), err |-> c.err]

\* AppendEvent with a fault: the new record is put in front of the others.
AppendEvent_Prepend(records, pcr, hashAlgos, event, order) ==
    IF Len(hashAlgos) = 0
    THEN [Records |-> records, err |-> "need to specify at least one hash algorithm"]
    ELSE LET d == digestsLoop(event, hashAlgos, 1, <<>>)
         IN  IF d.err # nil THEN [Records |-> records, err |-> d.err]
             ELSE LET c == createCELR(Len(records), pcr % 256, d.digestsMap, event, order)
                  IN  IF c.err # nil THEN [Records |-> records, err |-> c.err]
                      ELSE [Records |-> <<c.celr>> \o records, err |-> nil]

\* (c *CEL) AppendEvent on c.Records = records: c.Records afterwards and the
\* error.  order is the order in which createDigestField's range visits
\* digestsMap.
AppendEvent(records, pcr, hashAlgos, event, order) ==
    IF Len(hashAlgos) = 0
    THEN [Records |-> records, err |-> "need to specify at least one hash algorithm"]
    ELSE LET d == digestsLoop(event, hashAlgos, 1, <<>>)
         IN  IF d.err # nil THEN [Records |-> records, err |-> d.err]
             ELSE LET c == createCELR(Len(records), pcr % 256, d.digestsMap, event, order)
                  IN  IF c.err # nil THEN [Records |-> records, err |-> c.err]
                      ELSE [Records |-> Append(records, c.celr), err |-> nil]

(***************************************************************************)
(* The log: one CEL, created empty, appended to, encoded and decoded.      *)
(***************************************************************************)
\* Events a caller hands to AppendEvent.
EvEmpty == [tlv |-> TLV(80, <<>>), fill |-> 170, fail |-> {}, short |-> {}]
EvData == [tlv |-> TLV(80, <<1, 2>>), fill |-> 187, fail |-> {}, short |-> {}]
EvFail == [tlv |-> TLV(80, <<1, 2>>), fill |-> 187, fail |-> {"SHA256"}, short |-> {}]
EvShort == [tlv |-> TLV(80, <<1, 2>>), fill |-> 187, fail |-> {}, short |-> {"SHA1"}]

Events == {EvEmpty, EvData, EvFail, EvShort}
HashAlgoLists ==
    { <<>>, <<"SHA256">>, <<"SHA1", "SHA256">>, <<"SHA256", "SHA256">>, <<"MD5">> }
PCRArgs == {23}

NoCall == [op |-> "none"]

(***************************************************************************)
(* The TPM and the sealing engine (Key.Seal, Key.Unseal, Key.Reseal), as   *)
(* seal_test.go drives them.                                               *)
(*                                                                         *)
(* SHA-256 is taken to be free of collisions: a digest is the mark 256 (no *)
(* byte) followed by the bytes that were hashed, so two digests are equal  *)
(* exactly when their inputs are.                                          *)
(***************************************************************************)
sha256Size == 32

SHA256Sum(data) == <<256>> \o data

\* The value of a PCR after a reset.
ZeroDigest == Repeat(0, sha256Size)

\* The registers of the scenarios, and the digests they are extended by:
\* bytes.Repeat([]byte{0xAA}, sha256.Size) and the like.
Regs == {7, 23}
Extensions == { Repeat(170, sha256Size), Repeat(171, sha256Size) }

\* tpm2.PCRExtend: the register's new value from its old one.
\* With a fault: the new value forgets the old one.
PCRExtend_ForgetsOld(old, extension) == SHA256Sum(extension)

PCRExtend(old, extension) == SHA256Sum(old \o extension)

\* computePCRValue with a fault: it stops after the first extension.
computePCRValue_FirstOnly(base, extensions) ==
    IF extensions = <<>> THEN base ELSE SHA256Sum(base \o Head(extensions))

\* computePCRValue(base, extensions)
RECURSIVE computePCRValue(_, _)
computePCRValue(base, extensions) ==
    IF extensions = <<>> THEN base
    ELSE computePCRValue(SHA256Sum(base \o Head(extensions)), Tail(extensions))

\* concatValues with a fault: descending register order.
RECURSIVE concatValues_Descending(_, _)
concatValues_Descending(m, r) ==
    IF r > 23 THEN <<>>
    ELSE concatValues_Descending(m, r + 1) \o (IF r \in DOMAIN m THEN m[r] ELSE <<>>)

\* The values of the registers of a map m (register -> value), concatenated in
\* ascending register order, from register r on.
RECURSIVE concatValues(_, _)
concatValues(m, r) ==
    IF r > 23 THEN <<>>
    ELSE (IF r \in DOMAIN m THEN m[r] ELSE <<>>) \o concatValues(m, r + 1)

\* The octet i (0, 1, 2) of the bitmap of a selection of registers.
selectOctet(sel, i) ==
    (IF 8 * i \in sel THEN 1 ELSE 0) + (IF 8 * i + 1 \in sel THEN 2 ELSE 0)
    + (IF 8 * i + 2 \in sel THEN 4 ELSE 0) + (IF 8 * i + 3 \in sel THEN 8 ELSE 0)
    + (IF 8 * i + 4 \in sel THEN 16 ELSE 0) + (IF 8 * i + 5 \in sel THEN 32 ELSE 0)
    + (IF 8 * i + 6 \in sel THEN 64 ELSE 0) + (IF 8 * i + 7 \in sel THEN 128 ELSE 0)

\* The TPM's encoding of a selection of SHA-256 registers: one selection,
\* algorithm 0x000B, three octets of bitmap.
selectionEncoding(sel) ==
    PutUint32(1) \o <<0, 11, 3>> \o <<selectOctet(sel, 0), selectOctet(sel, 1), selectOctet(sel, 2)>>

\* computePCRSessionAuth(pcrs): the policy digest of a session that asserted
\* the registers of the map pcrs with the values of the map (command code
\* TPM_CC_PolicyPCR = 0x17F).
computePCRSessionAuth(m) ==
    SHA256Sum(ZeroDigest \o PutUint32(383) \o selectionEncoding(DOMAIN m)
              \o SHA256Sum(concatValues(m, 0)))

\* Whether bit j of an octet of a selection's bitmap is set.
bitSet(octet, j) == (octet \div (2 ^ j)) % 2 = 1

\* The TPM's side of PolicyPCR: the values of the selected registers of the
\* bank, in the order of the bits of the selection's bitmap (octet 0 bit 0
\* first); octetValues is the part of octet i, from its bit j on.
RECURSIVE octetValues(_, _, _, _)
octetValues(bank, octet, i, j) ==
    IF j > 7 \/ octet \div (2 ^ j) = 0 THEN <<>>
    ELSE (IF bitSet(octet, j) THEN bank[8 * i + j] ELSE <<>>)
         \o octetValues(bank, octet, i, j + 1)

selectedValues(bank, sel) ==
    octetValues(bank, selectOctet(sel, 0), 0, 0)
    \o octetValues(bank, selectOctet(sel, 1), 1, 0)
    \o octetValues(bank, selectOctet(sel, 2), 2, 0)

\* tpm2.StartAuthSession: the policy digest of a fresh policy session.
startAuthSession == ZeroDigest

\* tpm2.PolicyPCR(session, nil, sel): the session's policy digest after the
\* TPM asserted the selection sel against the bank.
policyPCR(policyDigest, bank, sel) ==
    SHA256Sum(policyDigest \o PutUint32(383) \o selectionEncoding(sel)
              \o SHA256Sum(selectedValues(bank, sel)))

\* getPCRSessionAuth(rw, pcrList): the digest (tpm2.PolicyGetDigest) of a
\* live policy session after PolicyPCR on the selection sel, the bank holding
\* bank.
getPCRSessionAuth(bank, sel) == policyPCR(startAuthSession, bank, sel)

\* Assertions: nil, CurrentPCRs{sel}, ExpectedPCRs{pcrs}, TargetPCRs{pcrs}.
NilOpt == [kind |-> "nil", sel |-> {}, pcrs |-> <<>>]
CurrentPCRs(sel) == [kind |-> "CurrentPCRs", sel |-> sel, pcrs |-> <<>>]
ExpectedPCRs(m) == [kind |-> "ExpectedPCRs", sel |-> DOMAIN m, pcrs |-> m]
TargetPCRs(m) == [kind |-> "TargetPCRs", sel |-> DOMAIN m, pcrs |-> m]

\* The register values an assertion stands for, the bank holding bank.
assertionPCRs(opt, bank) ==
    IF opt.kind = "CurrentPCRs" THEN [r \in opt.sel |-> bank[r]] ELSE opt.pcrs

\* A sealed blob: the secret (encrypted under the parent key), the selection
\* and digest of its policy, the bank at its creation.
NoBlob == [secret |-> <<>>, sel |-> {}, auth |-> <<>>, created |-> <<>>, valid |-> FALSE]

\* k.Seal(secret, opt) with the bank holding bank: the blob.
Seal(secret, opt, bank) ==
    [secret |-> secret, sel |-> opt.sel,
     auth |-> IF opt.kind = "nil" THEN <<>> ELSE computePCRSessionAuth(assertionPCRs(opt, bank)),
     created |-> bank, valid |-> TRUE]

\* certifies with a fault: the assertion is compared with the live bank.
certifies_Live(blob, opt, bank) ==
    opt.kind = "nil" \/ \A r \in opt.sel : assertionPCRs(opt, bank)[r] = bank[r]

\* Whether the bank at the blob's creation held what the assertion certifies.
certifies(blob, opt, bank) ==
    opt.kind = "nil" \/ \A r \in opt.sel : assertionPCRs(opt, bank)[r] = blob.created[r]

\* Unseal with a fault: a PCR policy session is asserted for every blob, the
\* blobs sealed without a register policy included.
Unseal_AlwaysPolicyPCR(blob, certifyOpt, bank) ==
    IF ~certifies(blob, certifyOpt, bank)
    THEN [secret |-> <<>>, err |-> "AuthorizationFailure"]
    ELSE IF getPCRSessionAuth(bank, blob.sel) # blob.auth
    THEN [secret |-> <<>>, err |-> "AuthorizationFailure"]
    ELSE [secret |-> blob.secret, err |-> nil]

\* k.Unseal(blob, certifyOpt) with the bank holding bank: the secret and the
\* error.
Unseal(blob, certifyOpt, bank) ==
    IF ~certifies(blob, certifyOpt, bank)
    THEN [secret |-> <<>>, err |-> "AuthorizationFailure"]
    ELSE IF blob.sel # {} /\ getPCRSessionAuth(bank, blob.sel) # blob.auth
    THEN [secret |-> <<>>, err |-> "AuthorizationFailure"]
    ELSE [secret |-> blob.secret, err |-> nil]

\* Reseal with a fault: the new policy also asserts the registers of the old
\* blob's selection, with the values they hold now.
Reseal_KeepsOldSelection(blob, certifyOpt, opt, bank) ==
    LET u == Unseal(blob, certifyOpt, bank)
        both == IF opt.kind = "nil" THEN opt
                ELSE TargetPCRs([r \in blob.sel \cup opt.sel |->
                                    IF r \in opt.sel THEN opt.pcrs[r] ELSE bank[r]])
    IN  IF u.err # nil THEN [blob |-> NoBlob, err |-> u.err]
        ELSE [blob |-> Seal(u.secret, both, bank), err |-> nil]

\* k.Reseal(blob, certifyOpt, opt): Unseal, then Seal of what it returned.
Reseal(blob, certifyOpt, opt, bank) ==
    LET u == Unseal(blob, certifyOpt, bank)
    IN  IF u.err # nil THEN [blob |-> NoBlob, err |-> u.err]
        ELSE [blob |-> Seal(u.secret, opt, bank), err |-> nil]

\* secret := []byte("test")
Secret == <<116, 101, 115, 116>>

NoPlan == [reg |-> 0, exts |-> <<>>]
NoHist == [sinceSeal |-> {}, sinceReseal |-> <<>>, extends |-> 0]

\* The TPM after a reset, nothing sealed.
TpmIdle ==
    /\ pcrs = [r \in Regs |-> ZeroDigest]
    /\ sealed = NoBlob
    /\ resealed = NoBlob
    /\ plan = NoPlan
    /\ hist = NoHist

Range(s) == { s[i] : i \in DOMAIN s }

\* c.AppendEvent(tpm, pcr, hashAlgos, event) with arguments from P, A and E,
\* on a log of fewer than max records.
AppendEventFrom(P, A, E, max) ==
    /\ Len(Records) < max
    /\ \E pcr \in P, hashAlgos \in A, event \in E :
         \E order \in Orders(Range(hashAlgos)) :
            LET r == AppendEvent(Records, pcr, hashAlgos, event, order)
            IN  /\ Records' = r.Records
                /\ call' = [op |-> "AppendEvent", c |-> Records, pcr |-> pcr,
                            hashAlgos |-> hashAlgos, event |-> event, err |-> r.err]
    /\ UNCHANGED <<producers, buf, tpmVars>>

AppendEventStep == AppendEventFrom(PCRArgs, HashAlgoLists, Events, MaxRecords)

\* c.EncodeCEL(&buf) into an empty buffer.
EncodeCELStep ==
    /\ buf = <<>>
    /\ buf' = EncodeCEL(Records, buf)
    /\ call' = [op |-> "EncodeCEL", c |-> Records, err |-> nil]
    /\ UNCHANGED <<producers, Records, tpmVars>>

\* DecodeToCEL(&buf)
DecodeToCELStep ==
    /\ LET r == DecodeToCEL(buf)
       IN  /\ buf' = r.buf
           /\ call' = [op |-> "DecodeToCEL", c |-> Records, arg |-> buf, cel |-> r.cel,
                       err |-> r.err]
    /\ UNCHANGED <<producers, Records, tpmVars>>

\* The reader is handed only the first k bytes of what c.EncodeCEL has just
\* written (buf.Truncate(k), k less than the length), and calls DecodeToCEL.
DecodeTruncatedStep ==
    /\ call.op = "EncodeCEL"
    /\ \E k \in 0..(Len(buf) - 1) :
          LET r == DecodeToCEL(SubSeq(buf, 1, k))
          IN  /\ buf' = r.buf
              /\ call' = [op |-> "DecodeToCEL", c |-> Records, arg |-> SubSeq(buf, 1, k),
                          cel |-> r.cel, err |-> r.err]
    /\ UNCHANGED <<producers, Records, tpmVars>>

\* The goroutines that append to the one log, and the event each records.
Producers == {1, 2}
ProducerEvent(p) == IF p = 1 THEN EvData ELSE EvEmpty

\* No producer is inside AppendEvent, nobody holds the callers' mutex.
\*   pc:       where each producer is ("idle", "load", "store")
\*   celr:     the record createCELR returned to it
\*   slice:    the c.Records it loaded for append
\*   mutex:    the producer holding the callers' mutex, 0 for none
\*   unlocked: whether some call was made without the mutex
\*   calls:    the calls begun
\*   appended: the records of the calls that returned nil, in that order
ProducersIdle ==
    [pc |-> [p \in Producers |-> "idle"],
     celr |-> [p \in Producers |-> ZeroRecord],
     slice |-> [p \in Producers |-> <<>>],
     mutex |-> 0, unlocked |-> FALSE, calls |-> 0, appended |-> <<>>]

Init ==
    /\ Records = <<>>
    /\ buf = <<>>
    /\ call = NoCall
    /\ TpmIdle
    /\ producers = ProducersIdle

Next ==
    \/ AppendEventStep
    \/ EncodeCELStep
    \/ DecodeToCELStep
    \/ DecodeTruncatedStep

Spec == Init /\ [][Next]_vars

(***************************************************************************)
(* Two goroutines append to the same CEL.  AppendEvent takes no lock, so a *)
(* call is three accesses to c.Records that other goroutines can fall      *)
(* between: len(c.Records) for the record number (line 135), the load of   *)
(* c.Records for append and the store of append's result (line 140).  A    *)
(* caller may wrap the call in a mutex of its own; a call made without it  *)
(* races, and of the outcomes of the race the model has those in which     *)
(* each load and each store of c.Records is whole.                         *)
(***************************************************************************)
\* sync.Mutex of the callers: Lock returns when nobody holds it.
MutexFree_Always(mutex) == TRUE

MutexFree(mutex) == mutex = 0

\* Lines 119-138 of a call by producer p, under the callers' mutex or not:
\* the digests, then createCELR(uint64(len(c.Records)), ...).
CreateStep(p) ==
    /\ producers.pc[p] = "idle"
    /\ producers.calls < MaxCalls
    /\ \E lock \in BOOLEAN, hashAlgos \in { <<>>, <<"SHA256">> } :
          /\ lock => MutexFree(producers.mutex)
          /\ LET event == ProducerEvent(p)
                 d == digestsLoop(event, hashAlgos, 1, <<>>)
                 c == IF Len(hashAlgos) = 0 \/ d.err # nil
                      THEN [celr |-> ZeroRecord,
                            err |-> IF Len(hashAlgos) = 0
                                    THEN "need to specify at least one hash algorithm"
                                    ELSE d.err]
                      ELSE createCELR(Len(Records), 23 % 256, d.digestsMap, event, hashAlgos)
             IN  /\ producers' =
                       [producers EXCEPT
                          !.pc[p] = IF c.err = nil THEN "load" ELSE "idle",
                          !.celr[p] = c.celr,
                          !.mutex = IF lock /\ c.err = nil THEN p ELSE @,
                          !.unlocked = @ \/ ~lock,
                          !.calls = @ + 1]
                 /\ call' = IF c.err = nil THEN call
                            ELSE [op |-> "AppendEvent", p |-> p, err |-> c.err]
    /\ UNCHANGED <<Records, buf, tpmVars>>

\* Line 140, first half: append loads c.Records.
LoadStep(p) ==
    /\ producers.pc[p] = "load"
    /\ producers' = [producers EXCEPT !.pc[p] = "store", !.slice[p] = Records]
    /\ UNCHANGED <<Records, buf, call, tpmVars>>

\* Line 140, second half: c.Records = the slice loaded with celr after it;
\* return nil, and the caller unlocks its mutex if it holds it.
StoreStep(p) ==
    /\ producers.pc[p] = "store"
    /\ Records' = Append(producers.slice[p], producers.celr[p])
    /\ producers' = [producers EXCEPT
                       !.pc[p] = "idle",
                       !.mutex = IF @ = p THEN 0 ELSE @,
                       !.appended = Append(@, producers.celr[p])]
    /\ call' = [op |-> "AppendEvent", p |-> p, err |-> nil]
    /\ UNCHANGED <<buf, tpmVars>>

NextProducers ==
    \/ \E p \in Producers : CreateStep(p)
    \/ \E p \in Producers : LoadStep(p)
    \/ \E p \in Producers : StoreStep(p)

SpecProducers == Init /\ [][NextProducers]_vars

(***************************************************************************)
(* The TLV reader on a byte stream: a caller writes bytes to a buffer and  *)
(* calls UnmarshalFirstTLV on it.                                          *)
(***************************************************************************)
ByteAlphabet == {0, 1, 2}

\* buf.WriteByte(b)
WriteByteStep ==
    /\ Len(buf) < MaxBufLen
    /\ \E b \in ByteAlphabet : buf' = Append(buf, b)
    /\ call' = [op |-> "WriteByte"]
    /\ UNCHANGED <<producers, Records, tpmVars>>

\* UnmarshalFirstTLV(&buf)
UnmarshalFirstTLVStep ==
    /\ LET r == UnmarshalFirstTLV(buf)
       IN  /\ buf' = r.buf
           /\ call' = [op |-> "UnmarshalFirstTLV", arg |-> buf, tlv |-> r.tlv, err |-> r.err]
    /\ UNCHANGED <<producers, Records, tpmVars>>

\* err := tlv.UnmarshalBinary(buf.Bytes()): the unread bytes as one slice
UnmarshalBinaryStep ==
    /\ LET r == UnmarshalBinary(buf)
       IN  call' = [op |-> "UnmarshalBinary", arg |-> buf, tlv |-> r.tlv, err |-> r.err]
    /\ UNCHANGED <<producers, Records, buf, tpmVars>>

NextTLV ==
    \/ WriteByteStep
    \/ UnmarshalFirstTLVStep
    \/ UnmarshalBinaryStep

SpecTLV == Init /\ [][NextTLV]_vars

(***************************************************************************)
(* The record codec on logs a caller builds by hand (the fields of Record  *)
(* and CEL are exported): any values under the types 0, 1 and 3, any       *)
(* content TLV.                                                            *)
(***************************************************************************)
GoodSHA256 == MarshalBinary(TLV(11, Repeat(170, HashSize("SHA256"))))
GoodSHA1 == MarshalBinary(TLV(4, Repeat(170, HashSize("SHA1"))))

DigestValues ==
    { <<>>,                                   \* no nested TLV
      GoodSHA256,                             \* one SHA-256 digest
      GoodSHA1 \o GoodSHA256,                 \* SHA-1 and SHA-256
      MarshalBinary(TLV(11, <<170>>)),        \* a SHA-256 digest of one byte
      GoodSHA256 \o MarshalBinary(TLV(11, Repeat(187, HashSize("SHA256")))),
                                              \* two SHA-256 digests
      MarshalBinary(TLV(9, <<1>>)),           \* no hash algorithm has identifier 9
      <<11, 0, 0>> }                          \* a nested TLV cut short

ArbRecords ==
    { Record(TLV(recnumTypeValue, <<>>), TLV(pcrTypeValue, <<>>),
             TLV(digestsTypeValue, <<>>), TLV(0, <<>>)) }
    \cup { Record(createRecNumField(5), createPCRField(23), TLV(digestsTypeValue, d), c) :
             d \in DigestValues, c \in {TLV(80, <<>>), TLV(0, <<1, 2>>)} }

\* c.Records = append(c.Records, r), r any record of ArbRecords
AddRecordStep ==
    /\ Len(Records) < MaxArbRecords
    /\ \E r \in ArbRecords : Records' = Append(Records, r)
    /\ call' = [op |-> "AddRecord"]
    /\ UNCHANGED <<producers, buf, tpmVars>>

\* r.EncodeCELR(&buf) into an empty buffer, r a record of the log
EncodeCELRStep ==
    /\ buf = <<>>
    /\ \E i \in 1..Len(Records) :
          /\ buf' = EncodeCELR(Records[i], buf)
          /\ call' = [op |-> "EncodeCELR", r |-> Records[i], err |-> nil]
    /\ UNCHANGED <<producers, Records, tpmVars>>

\* DecodeToCELR(&buf)
DecodeToCELRStep ==
    /\ LET r == DecodeToCELR(buf)
       IN  /\ buf' = r.buf
           /\ call' = [op |-> "DecodeToCELR", arg |-> buf, celr |-> r.celr, err |-> r.err]
    /\ UNCHANGED <<producers, Records, tpmVars>>

\* UnmarshalDigests(r.Digests), r a record of the log
UnmarshalDigestsStep ==
    /\ \E i \in 1..Len(Records) :
          LET r == UnmarshalDigests(Records[i].Digests)
          IN  call' = [op |-> "UnmarshalDigests", arg |-> Records[i].Digests,
                       digestsMap |-> r.digestsMap, err |-> r.err]
    /\ UNCHANGED <<producers, Records, buf, tpmVars>>

NextRecord ==
    \/ AddRecordStep
    \/ EncodeCELStep
    \/ DecodeToCELStep
    \/ EncodeCELRStep
    \/ DecodeToCELRStep
    \/ UnmarshalDigestsStep

SpecRecord == Init /\ [][NextRecord]_vars

(***************************************************************************)
(* Record creation on arguments of every kind: AppendEvent with register   *)
(* numbers inside and outside 0..255 and with one or two hash algorithms,  *)
(* and createCELR with digest maps a caller inside the package can pass,   *)
(* the empty map and maps with a digest of the wrong length included.      *)
(***************************************************************************)
WidePCRArgs == {23, 256, -1}
WideHashAlgoLists == { <<"SHA256">>, <<"SHA1", "SHA256">> }

AppendEventWideStep == AppendEventFrom(WidePCRArgs, WideHashAlgoLists, {EvData}, MaxRecords)

\* Values of map[crypto.Hash][]byte.
DigestMaps ==
    { <<>>,
      [h \in {"SHA256"} |-> Repeat(170, HashSize("SHA256"))],
      [h \in {"SHA256"} |-> Repeat(170, HashSize("SHA256") - 1)],
      [h \in {"SHA256"} |-> <<>>],
      [h \in {"SHA1", "SHA256"} |-> Repeat(170, HashSize(h))],
      [h \in {"SHA1", "SHA256"} |-> Repeat(170, HashSize("SHA1"))],
      [h \in {"MD5"} |-> Repeat(170, HashSize("MD5"))] }

\* celr, err := createCELR(uint64(len(c.Records)), 23, digestsmap, event)
CreateCELRStep ==
    /\ \E digestsmap \in DigestMaps, event \in {EvEmpty, EvData} :
         \E order \in Orders(DOMAIN digestsmap) :
            LET r == createCELR(Len(Records), 23, digestsmap, event, order)
            IN  call' = [op |-> "createCELR", digestsmap |-> digestsmap, event |-> event,
                         celr |-> r.celr, err |-> r.err]
    /\ UNCHANGED <<Records, buf, tpmVars, producers>>

NextAppend ==
    \/ AppendEventWideStep
    \/ CreateCELRStep

SpecAppend == Init /\ [][NextAppend]_vars

(***************************************************************************)
(* The sealing scenarios of seal_test.go: seal under the current values of *)
(* a selection, extend registers, reseal to predicted values, unseal.      *)
(***************************************************************************)
Selections == { {23}, {7, 23} }

\* The extension lists a prediction is computed from: one or two extensions.
Predictions ==
    { <<e>> : e \in Extensions } \cup { <<e1, e2>> : e1 \in Extensions, e2 \in Extensions }

\* sealed, err := srk.Seal(secret, CurrentPCRs{sel})
SealStep ==
    /\ ~sealed.valid
    /\ \E sel \in Selections :
          /\ sealed' = Seal(Secret, CurrentPCRs(sel), pcrs)
          /\ call' = [op |-> "Seal", err |-> nil]
    /\ hist' = [hist EXCEPT !.sinceSeal = {}]
    /\ UNCHANGED <<producers, Records, buf, pcrs, resealed, plan>>

\* tpm2.PCRExtend(rwc, r, tpm2.AlgSHA256, extension, "") with an extension
\* from E
PCRExtendFrom(E) ==
    /\ hist.extends < MaxExtends
    /\ \E r \in Regs, e \in E :
          /\ pcrs' = [pcrs EXCEPT ![r] = PCRExtend(@, e)]
          /\ hist' = [sinceSeal |-> IF sealed.valid THEN hist.sinceSeal \cup {r}
                                    ELSE hist.sinceSeal,
                      sinceReseal |-> IF resealed.valid THEN Append(hist.sinceReseal, <<r, e>>)
                                      ELSE hist.sinceReseal,
                      extends |-> hist.extends + 1]
          /\ call' = [op |-> "PCRExtend", err |-> nil]
    /\ UNCHANGED <<producers, Records, buf, sealed, resealed, plan>>

PCRExtendStep == PCRExtendFrom(Extensions)

\* The registers of the sealed blob's selection as they are now, register R
\* replaced by computePCRValue of its value and the extensions exts; then
\* sealed, err = key.Reseal(sealed, nil, TargetPCRs{predicted}).
ResealStep ==
    /\ sealed.valid
    /\ ~resealed.valid
    /\ \E R \in sealed.sel, exts \in Predictions :
          LET predicted == [r \in sealed.sel |->
                               IF r = R THEN computePCRValue(pcrs[r], exts) ELSE pcrs[r]]
              res == Reseal(sealed, NilOpt, TargetPCRs(predicted), pcrs)
          IN  /\ resealed' = res.blob
              /\ plan' = IF res.err = nil THEN [reg |-> R, exts |-> exts] ELSE plan
              /\ call' = [op |-> "Reseal", err |-> res.err]
    /\ hist' = [hist EXCEPT !.sinceReseal = <<>>]
    /\ UNCHANGED <<producers, Records, buf, pcrs, sealed>>

\* unseal, err := srk.Unseal(sealed, nil), on the blob Seal or Reseal returned
UnsealStep ==
    /\ \E which \in {"sealed", "resealed"} :
          LET blob == IF which = "sealed" THEN sealed ELSE resealed
              u == Unseal(blob, NilOpt, pcrs)
          IN  /\ blob.valid
              /\ call' = [op |-> "Unseal", blob |-> which, secret |-> u.secret, err |-> u.err]
    /\ UNCHANGED <<producers, Records, buf, tpmVars>>

NextTPM ==
    \/ SealStep
    \/ PCRExtendStep
    \/ ResealStep
    \/ UnsealStep

SpecTPM == Init /\ [][NextTPM]_vars

(***************************************************************************)
(* TestComputeSessionAuth: read the registers of pcrList, then compare the *)
(* digest of a live policy session with the digest computed offline.       *)
(***************************************************************************)
PCRLists == { <<7>>, <<23>>, <<7, 23>>, <<23, 7>> }

\* pcrs[pcrNum] = tpm2.ReadPCR(rwc, pcrNum, tpm2.AlgSHA256) for the registers
\* of pcrList; getAuth := getPCRSessionAuth(rwc, pcrList);
\* computeAuth := computePCRSessionAuth(pcrs)
SessionAuthStep ==
    /\ \E pcrList \in PCRLists :
          LET read == [r \in Range(pcrList) |-> pcrs[r]]
          IN  call' = [op |-> "SessionAuth", pcrList |-> pcrList, pcrs |-> read,
                       getAuth |-> getPCRSessionAuth(pcrs, Range(pcrList)),
                       computeAuth |-> computePCRSessionAuth(read)]
    /\ UNCHANGED <<producers, Records, buf, tpmVars>>

NextAuth ==
    \/ PCRExtendStep
    \/ SessionAuthStep

SpecAuth == Init /\ [][NextAuth]_vars

(***************************************************************************)
(* The scenarios of TestSealingResealingToEmptyPCRs, TestSealWithCertify,  *)
(* TestSelfReseal and the end of TestReseal: seal with or without a        *)
(* register policy, extend registers, reseal to nil or to a snapshot of    *)
(* any selection, unseal with or without a certify assertion.              *)
(***************************************************************************)
\* extension := bytes.Repeat([]byte{0xAA}, sha256.Size)
PolicyExtensions == { Repeat(170, sha256Size) }

SealOpts == { NilOpt } \cup { CurrentPCRs(sel) : sel \in Selections }

\* The selections a snapshot is read for (ReadPCRs(rwc, []int{10}, ...)):
\* they need not be the selection the blob was sealed under.
SnapshotSelections == { {7}, {23}, {7, 23} }

\* The snapshots Reseal is given with the bank holding bank: the values read
\* now, or those with one register replaced by its predicted value.
Snapshots(bank) ==
    { [r \in sel |-> bank[r]] : sel \in SnapshotSelections }
    \cup { [r \in {23} |-> computePCRValue(bank[r], <<e>>)] : e \in PolicyExtensions }

\* The registers extended since the blob which ("sealed", "resealed") was
\* created.
ExtendedSince(which) ==
    IF which = "sealed" THEN hist.sinceSeal
    ELSE { hist.sinceReseal[i][1] : i \in DOMAIN hist.sinceReseal }

\* sealed, err := key.Seal(secret, opt), opt nil or CurrentPCRs{sel}
SealOptStep ==
    /\ ~sealed.valid
    /\ \E opt \in SealOpts :
          /\ sealed' = Seal(Secret, opt, pcrs)
          /\ call' = [op |-> "Seal", opt |-> opt, err |-> nil]
    /\ hist' = [hist EXCEPT !.sinceSeal = {}]
    /\ UNCHANGED <<producers, Records, buf, pcrs, resealed, plan>>

\* resealed, err := key.Reseal(sealed, nil, opt), opt nil or
\* TargetPCRs{snapshot}
ResealOptStep ==
    /\ sealed.valid
    /\ ~resealed.valid
    /\ \E opt \in { NilOpt } \cup { TargetPCRs(m) : m \in Snapshots(pcrs) } :
          LET res == Reseal(sealed, NilOpt, opt, pcrs)
          IN  /\ resealed' = res.blob
              /\ plan' = IF res.err = nil THEN [reg |-> 0, exts |-> <<>>, target |-> opt]
                         ELSE plan
              /\ call' = [op |-> "Reseal", in |-> sealed, opt |-> opt, err |-> res.err]
    /\ hist' = [hist EXCEPT !.sinceReseal = <<>>]
    /\ UNCHANGED <<producers, Records, buf, pcrs, sealed>>

\* The certify assertions Unseal is given for a blob: nil, CurrentPCRs{sel},
\* or ExpectedPCRs{the values read when the blob was created}.
CertifyOpts(blob) ==
    { NilOpt } \cup { CurrentPCRs(sel) : sel \in Selections }
    \cup { ExpectedPCRs([r \in sel |-> blob.created[r]]) : sel \in Selections }

\* unseal, err := key.Unseal(blob, certifyOpt)
UnsealOptStep ==
    /\ \E which \in {"sealed", "resealed"} :
          LET blob == IF which = "sealed" THEN sealed ELSE resealed
          IN  /\ blob.valid
              /\ \E certifyOpt \in CertifyOpts(blob) :
                    LET u == Unseal(blob, certifyOpt, pcrs)
                    IN  call' = [op |-> "Unseal", blob |-> which, certify |-> certifyOpt,
                                 secret |-> u.secret, err |-> u.err]
    /\ UNCHANGED <<producers, Records, buf, tpmVars>>

PCRExtendOneStep == PCRExtendFrom(PolicyExtensions)

NextPolicy ==
    \/ SealOptStep
    \/ PCRExtendOneStep
    \/ ResealOptStep
    \/ UnsealOptStep

SpecPolicy == Init /\ [][NextPolicy]_vars

(***************************************************************************)
(* C1.  In every state of a log that starts empty and changes only by      *)
(* AppendEvent, the record at list position i (counted from 0) carries a   *)
(* RECNUM TLV of type 0 whose 8-byte big-endian value is i.                *)
(***************************************************************************)
C1_RecnumIsPosition ==
    \A i \in 1..Len(Records) :
        /\ Records[i].RECNUM = TLV(0, <<0, 0, 0, 0, 0, 0, 0, i - 1>>)
        /\ UnmarshalRecNum(Records[i].RECNUM) = [recnum |-> i - 1, err |-> nil]

\* A successful append to a log that already holds a record, after which the
\* log holds records 0 and 1.
C1_Witness ==
    /\ call.op = "AppendEvent"
    /\ call.err = nil
    /\ Len(call.c) >= 1
    /\ Len(Records) >= 2

(***************************************************************************)
(* C3.  AppendEvent is all-or-nothing: when it returns an error the        *)
(* records are those the log held before the call; when it succeeds the    *)
(* log is the old one with one record more, numbered by the old length.    *)
(***************************************************************************)
C3_FailedAppendLeavesLog ==
    call.op = "AppendEvent" =>
        /\ call.err # nil => Records = call.c
        /\ call.err = nil =>
              /\ Len(Records) = Len(call.c) + 1
              /\ SubSeq(Records, 1, Len(call.c)) = call.c
              /\ UnmarshalRecNum(Records[Len(Records)].RECNUM).recnum = Len(call.c)

\* GenerateDigest fails for the last of two algorithms, on a log that holds a
\* record.
C3_Witness ==
    /\ call.op = "AppendEvent"
    /\ call.err = "digest error"
    /\ call.hashAlgos = <<"SHA1", "SHA256">>
    /\ Len(call.c) >= 1
    /\ Records = call.c

\* A digest of the wrong length makes createCELR fail on a log that holds a
\* record.
C3_WitnessDigestLength ==
    /\ call.op = "AppendEvent"
    /\ call.err = "digest length doesn't match the expected length"
    /\ Len(call.c) >= 1

(***************************************************************************)
(* C6.  DecodeToCEL of a proper prefix P of the encoding of a log built by *)
(* AppendEvent succeeds only when P ends at the end of a record's          *)
(* encoding, and then returns the records before that end; when P ends     *)
(* inside a record (a TLV boundary inside the record included) it returns  *)
(* an error and no records.                                                *)
(***************************************************************************)
\* The numbers k of leading records of log c whose encoding is exactly P.
RecordEnds(c, P) == { k \in 0..Len(c) : EncodeCEL(SubSeq(c, 1, k), <<>>) = P }

C6_TruncatedLogFails ==
    (call.op = "DecodeToCEL" /\ Len(call.arg) < Len(EncodeCEL(call.c, <<>>))
       /\ call.arg = SubSeq(EncodeCEL(call.c, <<>>), 1, Len(call.arg))) =>
        /\ call.err = nil <=> RecordEnds(call.c, call.arg) # {}
        /\ call.err = nil =>
              \E k \in RecordEnds(call.c, call.arg) : call.cel = SubSeq(call.c, 1, k)
        /\ call.err # nil => call.cel = <<>>

\* The prefix ends on the boundary between the PCR TLV and the DIGESTS TLV of
\* the second record: 19 bytes into it.
C6_Witness ==
    /\ call.op = "DecodeToCEL"
    /\ Len(call.c) = 2
    /\ Len(call.arg) = Len(EncodeCELR(call.c[1], <<>>))
                         + Len(MarshalBinary(call.c[2].RECNUM))
                         + Len(MarshalBinary(call.c[2].PCR))
    /\ call.err = "buffer ends unexpectedly"
    /\ call.cel = <<>>

\* The prefix ends with the first record: one record is returned.
C6_WitnessRecordEnd ==
    /\ call.op = "DecodeToCEL"
    /\ Len(call.c) = 2
    /\ call.arg = EncodeCELR(call.c[1], <<>>)
    /\ call.err = nil
    /\ call.cel = <<call.c[1]>>

(***************************************************************************)
(* C2.  Round trip: DecodeToCEL of the bytes EncodeCEL wrote for a log     *)
(* whose records hold TLVs of types 0, 1, 3 and any content TLV returns    *)
(* the same records in the same order and leaves the buffer empty (the     *)
(* empty log and zero-length values included); DecodeToCELR of the bytes   *)
(* EncodeCELR wrote for one such record returns that record.               *)
(***************************************************************************)
C2_RoundTrip ==
    /\ (call.op = "DecodeToCEL" /\ call.arg = EncodeCEL(call.c, <<>>)) =>
          /\ call.err = nil
          /\ call.cel = call.c
          /\ buf = <<>>
    /\ call.op = "DecodeToCELR" =>
          \A r \in ArbRecords :
              call.arg = EncodeCELR(r, <<>>) =>
                  /\ call.err = nil
                  /\ call.celr = r
                  /\ buf = <<>>

\* The whole encoding of a log of two records, one of them with zero-length
\* values only, has been decoded.
C2_Witness ==
    /\ call.op = "DecodeToCEL"
    /\ Len(call.c) = 2
    /\ call.arg = EncodeCEL(call.c, <<>>)
    /\ \E i \in 1..2 : call.c[i].Digests.Value = <<>> /\ call.c[i].Content.Value = <<>>
    /\ call.cel = call.c

\* The empty log has been encoded and decoded.
C2_WitnessEmptyLog ==
    /\ call.op = "DecodeToCEL"
    /\ call.c = <<>>
    /\ call.arg = <<>>
    /\ call.cel = <<>>
    /\ call.err = nil

\* One record has been encoded and decoded alone.
C2_WitnessRecord ==
    /\ call.op = "DecodeToCELR"
    /\ call.err = nil
    /\ call.arg = EncodeCELR(call.celr, <<>>)
    /\ call.celr \in ArbRecords

(***************************************************************************)
(* C7.  As claimed: whenever UnmarshalFirstTLV returns an error, the       *)
(* unread contents of the buffer are what they were before the call.       *)
(***************************************************************************)
C7_ErrorLeavesBuffer ==
    (call.op = "UnmarshalFirstTLV" /\ call.err # nil) => buf = call.arg

(***************************************************************************)
(* C7, amended.  Whenever UnmarshalFirstTLV returns an error it has read   *)
(* every unread byte: the buffer is left empty, and so unchanged only if   *)
(* it was empty before the call.                                           *)
(***************************************************************************)
C7_ErrorDrainsBuffer ==
    (call.op = "UnmarshalFirstTLV" /\ call.err # nil) =>
        /\ buf = <<>>
        /\ buf = call.arg <=> call.arg = <<>>

\* The stream ended inside the value: header and one of two value bytes were
\* there, and are gone.
C7_Witness ==
    /\ call.op = "UnmarshalFirstTLV"
    /\ call.err = EOF
    /\ Len(call.arg) = 6
    /\ Uint32(SubSeq(call.arg, 2, 5)) = 2
    /\ buf = <<>>

(***************************************************************************)
(* C8.  UnmarshalFirstTLV returns io.EOF, and never the length-mismatch    *)
(* error, exactly when the buffer holds fewer than 5 + declared-length     *)
(* bytes; otherwise it returns the TLV of the first byte and the declared  *)
(* number of value bytes, and consumes exactly those 5 + length bytes.     *)
(***************************************************************************)
\* The buffer a holds a header and the value bytes the header declares.
HoldsTLV(a) == Len(a) >= 5 /\ Len(a) >= 5 + Uint32(SubSeq(a, 2, 5))

C8_EOFIffShort ==
    call.op = "UnmarshalFirstTLV" =>
        /\ call.err = EOF <=> ~HoldsTLV(call.arg)
        /\ call.err # "TLV Length doesn't match the size of its Value"
        /\ HoldsTLV(call.arg) =>
              LET n == Uint32(SubSeq(call.arg, 2, 5))
              IN  /\ call.err = nil
                  /\ call.tlv = TLV(call.arg[1], SubSeq(call.arg, 6, 5 + n))
                  /\ buf = SubSeq(call.arg, 6 + n, Len(call.arg))

\* A declared length of 0 at the very end of the buffer.
C8_Witness ==
    /\ call.op = "UnmarshalFirstTLV"
    /\ Len(call.arg) = 5
    /\ call.err = nil
    /\ call.tlv.Value = <<>>
    /\ buf = <<>>

\* A TLV with a value, followed by a byte that stays unread.
C8_WitnessRest ==
    /\ call.op = "UnmarshalFirstTLV"
    /\ call.err = nil
    /\ Len(call.tlv.Value) = 1
    /\ Len(buf) = 1

\* A partial length field.
C8_WitnessPartialLength ==
    /\ call.op = "UnmarshalFirstTLV"
    /\ Len(call.arg) = 3
    /\ call.err = EOF

(***************************************************************************)
(* C4.  Unseal(blob, nil) of a blob sealed under CurrentPCRs{sel} returns  *)
(* the secret exactly when every register of sel holds the value it held   *)
(* at seal time; once a register of sel has been extended it fails with    *)
(* an authorization failure, in that state and in every later one.         *)
(***************************************************************************)
C4_UnsealIffUnchanged ==
    sealed.valid =>
        /\ Unseal(sealed, NilOpt, pcrs).err = nil
              <=> \A r \in sealed.sel : pcrs[r] = sealed.created[r]
        /\ Unseal(sealed, NilOpt, pcrs).err = nil => Unseal(sealed, NilOpt, pcrs).secret = Secret
        /\ hist.sinceSeal \cap sealed.sel # {}
              => Unseal(sealed, NilOpt, pcrs).err = "AuthorizationFailure"
        /\ hist.sinceSeal \cap sealed.sel = {} => Unseal(sealed, NilOpt, pcrs).err = nil
        /\ (call.op = "Unseal" /\ call.blob = "sealed") =>
              /\ call.err = Unseal(sealed, NilOpt, pcrs).err
              /\ call.secret = Unseal(sealed, NilOpt, pcrs).secret

\* Register 23 of the selection {7, 23} has been extended twice since the
\* seal, and Unseal has failed.
C4_Witness ==
    /\ call.op = "Unseal"
    /\ call.blob = "sealed"
    /\ call.err = "AuthorizationFailure"
    /\ sealed.sel = {7, 23}
    /\ hist.sinceSeal = {23}
    /\ hist.extends >= 2

\* Only a register outside the selection has been extended since the seal,
\* and Unseal has returned the secret.
C4_WitnessUnchanged ==
    /\ call.op = "Unseal"
    /\ call.blob = "sealed"
    /\ call.err = nil
    /\ call.secret = Secret
    /\ sealed.sel = {23}
    /\ hist.sinceSeal = {7}

(***************************************************************************)
(* C5.  After Seal under CurrentPCRs{sel} and Reseal to TargetPCRs of the  *)
(* live values with register R of sel replaced by computePCRValue(current  *)
(* R, extensions): (a) Unseal of the new blob fails as long as R has not   *)
(* been extended; (b) once R, and no other register of sel, has been       *)
(* extended by those extensions in that order, Unseal of the new blob      *)
(* returns the secret.                                                     *)
(***************************************************************************)
\* The extensions of register r since the Reseal, in order.
ExtendedBy(r) ==
    LET idx == { i \in DOMAIN hist.sinceReseal : hist.sinceReseal[i][1] = r }
        RECURSIVE pick(_)
        pick(i) == IF i > Len(hist.sinceReseal) THEN <<>>
                   ELSE (IF i \in idx THEN <<hist.sinceReseal[i][2]>> ELSE <<>>) \o pick(i + 1)
    IN  pick(1)

C5_ResealToFuture ==
    resealed.valid =>
        /\ ExtendedBy(plan.reg) = <<>>
              => Unseal(resealed, NilOpt, pcrs).err = "AuthorizationFailure"
        /\ (ExtendedBy(plan.reg) = plan.exts
              /\ \A r \in resealed.sel \ {plan.reg} : ExtendedBy(r) = <<>>)
              => /\ Unseal(resealed, NilOpt, pcrs).err = nil
                 /\ Unseal(resealed, NilOpt, pcrs).secret = Secret
        /\ (call.op = "Unseal" /\ call.blob = "resealed") =>
              /\ call.err = Unseal(resealed, NilOpt, pcrs).err
              /\ call.secret = Unseal(resealed, NilOpt, pcrs).secret

\* The register has been extended by the two predicted extensions, which
\* differ, and Unseal of the new blob has returned the secret.
C5_Witness ==
    /\ resealed.valid
    /\ call.op = "Unseal"
    /\ call.blob = "resealed"
    /\ call.err = nil
    /\ call.secret = Secret
    /\ Len(plan.exts) = 2
    /\ plan.exts[1] # plan.exts[2]
    /\ ExtendedBy(plan.reg) = plan.exts

\* Unseal of the new blob has failed before any extension.
C5_WitnessBefore ==
    /\ resealed.valid
    /\ call.op = "Unseal"
    /\ call.blob = "resealed"
    /\ call.err = "AuthorizationFailure"
    /\ hist.sinceReseal = <<>>

(***************************************************************************)
(* The nested TLVs of a DIGESTS value, read off the wire format: 1 byte of *)
(* type, 4 bytes of big-endian length, that many bytes of value, up to the *)
(* first place where no whole TLV is left.                                 *)
(***************************************************************************)
RECURSIVE NestedTLVs(_)
NestedTLVs(v) ==
    IF ~HoldsTLV(v) THEN <<>>
    ELSE <<TLV(v[1], SubSeq(v, 6, 5 + Uint32(SubSeq(v, 2, 5))))>>
         \o NestedTLVs(SubSeq(v, 6 + Uint32(SubSeq(v, 2, 5)), Len(v)))

\* The encoding of a sequence of nested TLVs.
RECURSIVE EncodeNested(_)
EncodeNested(ts) ==
    IF ts = <<>> THEN <<>> ELSE MarshalBinary(Head(ts)) \o EncodeNested(Tail(ts))

\* The nested TLV names no hash algorithm, or its value has not the size of
\* the algorithm's digest.
BadDigest(t) ==
    \/ AlgorithmHash(t.Type).err # nil
    \/ Len(t.Value) # HashSize(AlgorithmHash(t.Type).hash)

(***************************************************************************)
(* C9.  As claimed: UnmarshalDigests of a TLV of type 3 returns an error   *)
(* if a nested TLV's type is no hash algorithm identifier or its value     *)
(* length differs from that algorithm's digest size, and never returns a   *)
(* map holding a digest of the wrong size for its algorithm.               *)
(***************************************************************************)
C9_WrongDigestsRejected ==
    (call.op = "UnmarshalDigests" /\ call.arg.Type = digestsTypeValue) =>
        /\ (\E i \in DOMAIN NestedTLVs(call.arg.Value) : BadDigest(NestedTLVs(call.arg.Value)[i]))
              => call.err # nil
        /\ call.err = nil =>
              \A h \in DOMAIN call.digestsMap : Len(call.digestsMap[h]) = HashSize(h)

\* What does hold of UnmarshalDigests: a nested TLV whose type is no hash
\* algorithm identifier, or one cut short, makes it fail.
C9_UnknownAlgorithmRejected ==
    (call.op = "UnmarshalDigests" /\ call.arg.Type = digestsTypeValue) =>
        /\ (\E i \in DOMAIN NestedTLVs(call.arg.Value) :
               AlgorithmHash(NestedTLVs(call.arg.Value)[i].Type).err # nil) => call.err # nil
        /\ call.arg.Value # EncodeNested(NestedTLVs(call.arg.Value)) => call.err # nil

(***************************************************************************)
(* C10.  As claimed: every record AppendEvent appended and every record    *)
(* DecodeToCEL returned has a DIGESTS TLV whose value holds at least one   *)
(* nested TLV and no two nested TLVs of the same hash algorithm.           *)
(***************************************************************************)
DigestsNonEmptyUnique(tlv) ==
    /\ Len(NestedTLVs(tlv.Value)) >= 1
    /\ \A i, j \in DOMAIN NestedTLVs(tlv.Value) :
          NestedTLVs(tlv.Value)[i].Type = NestedTLVs(tlv.Value)[j].Type => i = j

C10_DigestsNonEmptyUnique ==
    /\ (call.op = "AppendEvent" /\ call.err = nil) =>
          DigestsNonEmptyUnique(Records[Len(Records)].Digests)
    /\ (call.op = "DecodeToCEL" /\ call.err = nil) =>
          \A i \in DOMAIN call.cel : DigestsNonEmptyUnique(call.cel[i].Digests)

\* The blob a call of Unseal was given.
BlobOf(which) == IF which = "sealed" THEN sealed ELSE resealed

\* What Unseal returns when it releases the secret.
Released == [secret |-> Secret, err |-> nil]

(***************************************************************************)
(* C11.  A blob sealed with no register policy, Seal(secret, nil), is      *)
(* released by Unseal(blob, nil) with the original secret in every         *)
(* register state, after any sequence of extensions; Reseal(blob, nil,     *)
(* nil) succeeds and returns a blob with the same property and the same    *)
(* secret.                                                                 *)
(***************************************************************************)
C11_UnconditionalSeal ==
    /\ (sealed.valid /\ sealed.sel = {}) => Unseal(sealed, NilOpt, pcrs) = Released
    /\ (sealed.valid /\ sealed.sel = {} /\ resealed.valid /\ resealed.sel = {})
          => Unseal(resealed, NilOpt, pcrs) = Released
    /\ (call.op = "Unseal" /\ call.certify = NilOpt /\ sealed.sel = {}
          /\ BlobOf(call.blob).sel = {})
          => (call.err = nil /\ call.secret = Secret)
    /\ (call.op = "Reseal" /\ call.in.sel = {} /\ call.opt = NilOpt)
          => (call.err = nil /\ resealed.valid /\ resealed.sel = {}
              /\ resealed.secret = Secret)

\* The blob that Reseal(blob, nil, nil) returned for a blob sealed without a
\* policy has been unsealed after both registers were extended.
C11_Witness ==
    /\ call.op = "Unseal" /\ call.blob = "resealed" /\ call.certify = NilOpt
    /\ sealed.sel = {} /\ resealed.valid /\ resealed.sel = {}
    /\ ExtendedSince("resealed") = Regs
    /\ call.err = nil /\ call.secret = Secret

\* The blob sealed without a policy has been unsealed after both registers
\* were extended.
C11_WitnessSealed ==
    /\ call.op = "Unseal" /\ call.blob = "sealed" /\ call.certify = NilOpt
    /\ sealed.sel = {} /\ hist.sinceSeal = Regs
    /\ call.err = nil /\ call.secret = Secret

(***************************************************************************)
(* C12.  Unseal with a certify assertion compares the assertion's register *)
(* values with the values the registers held when the blob was created     *)
(* (sealed or resealed).  With the blob's release policy satisfied by the  *)
(* live registers: Unseal(blob, CurrentPCRs{sel}) fails once a register of *)
(* sel has been extended since the blob was created (and succeeds while    *)
(* none has), and Unseal(blob, ExpectedPCRs{values read at creation})      *)
(* succeeds and returns the original secret.                               *)
(***************************************************************************)
PolicySatisfied(blob) ==
    blob.sel = {} \/ getPCRSessionAuth(pcrs, blob.sel) = blob.auth

C12_WitnessExpected ==
    /\ call.op = "Unseal" /\ call.blob = "resealed"
    /\ resealed.sel # {} /\ PolicySatisfied(resealed)
    /\ call.certify.kind = "ExpectedPCRs"
    /\ ExtendedSince("resealed") \cap call.certify.sel # {}
    /\ call.err = nil /\ call.secret = Secret

\* A blob sealed under register 23 alone: its policy is still satisfied after
\* register 7 was extended, and certifying the current values of 7 and 23 has
\* failed.
C12_WitnessSealed ==
    /\ call.op = "Unseal" /\ call.blob = "sealed"
    /\ sealed.sel = {23} /\ PolicySatisfied(sealed)
    /\ call.certify = CurrentPCRs({7, 23})
    /\ hist.sinceSeal = {7}
    /\ call.err # nil

(***************************************************************************)
(* C13.  Reseal returns a new blob whose release condition is exactly the  *)
(* new assertion: after a successful Reseal(blob, nil, TargetPCRs{snapshot})*)
(* Unseal(newBlob, nil) returns the original secret exactly when the live  *)
(* values of the registers of snapshot equal snapshot, whatever has        *)
(* happened to the registers that were only in the old blob's selection.   *)
(* The old blob is not changed by Reseal and stays bound to its old        *)
(* policy: Unseal(oldBlob, nil) succeeds exactly while no register of its  *)
(* selection has been extended since it was sealed.                        *)
(***************************************************************************)
SnapshotReached(m) == \A r \in DOMAIN m : pcrs[r] = m[r]

C13_ResealReplacesPolicy ==
    /\ (resealed.valid /\ plan.target.kind = "TargetPCRs") =>
          /\ SnapshotReached(plan.target.pcrs)
                => Unseal(resealed, NilOpt, pcrs) = Released
          /\ ~SnapshotReached(plan.target.pcrs)
                => Unseal(resealed, NilOpt, pcrs).err # nil
          /\ (call.op = "Unseal" /\ call.blob = "resealed" /\ call.certify = NilOpt)
                => /\ (call.err = nil) = SnapshotReached(plan.target.pcrs)
                   /\ call.err = nil => call.secret = Secret
    /\ call.op = "Reseal" => sealed = call.in
    /\ (resealed.valid /\ call.op = "Unseal" /\ call.blob = "sealed"
          /\ call.certify = NilOpt)
          => (call.err = nil) = (hist.sinceSeal \cap sealed.sel = {})

\* TestSelfReseal with an extension added: the blob was sealed under 7 and 23
\* and resealed to a snapshot of 7 alone; 23 has been extended since, and
\* Unseal of the new blob has returned the secret.
C13_Witness ==
    /\ call.op = "Unseal" /\ call.blob = "resealed" /\ call.certify = NilOpt
    /\ sealed.sel = {7, 23} /\ resealed.valid
    /\ DOMAIN plan.target.pcrs = {7}
    /\ 23 \in ExtendedSince("resealed")
    /\ call.err = nil /\ call.secret = Secret

\* In the same situation Unseal of the old blob has failed.
C13_WitnessOldBlob ==
    /\ call.op = "Unseal" /\ call.blob = "sealed" /\ call.certify = NilOpt
    /\ sealed.sel = {7, 23} /\ resealed.valid
    /\ DOMAIN plan.target.pcrs = {7}
    /\ 23 \in ExtendedSince("resealed")
    /\ call.err # nil

\* The new blob's snapshot lies outside the old selection, a register of the
\* snapshot has been extended, and Unseal of the new blob has failed.
C13_WitnessNotReached ==
    /\ call.op = "Unseal" /\ call.blob = "resealed" /\ call.certify = NilOpt
    /\ sealed.sel = {23} /\ resealed.valid
    /\ DOMAIN plan.target.pcrs = {7}
    /\ ExtendedSince("resealed") = {7}
    /\ call.err # nil

(***************************************************************************)
(* C14.  Offline digest equivalence: for every selection of registers and  *)
(* every bank reached by extensions, computePCRSessionAuth applied to the  *)
(* map of the selected registers' values returns the digest that           *)
(* getPCRSessionAuth obtains from a live policy session asserting the same *)
(* selection: the hash of the zero-filled start digest, the command code,  *)
(* the selection's encoding and the hash of the values in ascending        *)
(* register order.                                                         *)
(***************************************************************************)
C14_OfflineEqualsLive ==
    /\ \A sel \in SUBSET Regs :
          computePCRSessionAuth([r \in sel |-> pcrs[r]]) = getPCRSessionAuth(pcrs, sel)
    /\ call.op = "SessionAuth" =>
          /\ call.computeAuth = call.getAuth
          /\ call.getAuth =
                SHA256Sum(ZeroDigest \o <<0, 0, 1, 127>>
                          \o selectionEncoding(Range(call.pcrList))
                          \o SHA256Sum(IF Range(call.pcrList) = {7, 23}
                                       THEN pcrs[7] \o pcrs[23]
                                       ELSE pcrs[call.pcrList[1]]))

\* TestComputeSessionAuth on two registers that hold different values, neither
\* the reset value, the list naming the higher register first.
C14_Witness ==
    /\ call.op = "SessionAuth" /\ call.pcrList = <<23, 7>>
    /\ pcrs[7] # ZeroDigest /\ pcrs[23] # ZeroDigest /\ pcrs[7] # pcrs[23]
    /\ call.computeAuth = call.getAuth

(***************************************************************************)
(* C15.  TLV.UnmarshalBinary returns an error, and neither crashes nor     *)
(* returns a TLV, whenever the declared 4-byte big-endian length differs   *)
(* from the number of bytes present after the 5-byte header, inputs        *)
(* shorter than the header included; otherwise it returns the TLV whose    *)
(* type is the first byte and whose value is the bytes after the header.   *)
(* The code slices data[1:5] and data[5:] before any check: on fewer than  *)
(* 5 bytes it panics, so the statement is violated.                        *)
(***************************************************************************)
WellFormedTLV(data) ==
    /\ Len(data) >= 5
    /\ Uint32(SubSeq(data, 2, 5)) = Len(data) - 5

C15_MalformedLengthIsError ==
    call.op = "UnmarshalBinary" =>
        IF WellFormedTLV(call.arg)
        THEN /\ call.err = nil
             /\ call.tlv = TLV(call.arg[1], SubSeq(call.arg, 6, Len(call.arg)))
        ELSE call.err \notin {nil, "panic"}

\* What does hold: on 5 bytes or more the function behaves as stated.
C15_HeaderPresent ==
    (call.op = "UnmarshalBinary" /\ Len(call.arg) >= 5) =>
        IF WellFormedTLV(call.arg)
        THEN /\ call.err = nil
             /\ call.tlv = TLV(call.arg[1], SubSeq(call.arg, 6, Len(call.arg)))
        ELSE call.err = "TLV Length doesn't match the size of its Value"

\* UnmarshalBinary has been given fewer than 5 bytes.
C15_WitnessShort ==
    call.op = "UnmarshalBinary" /\ Len(call.arg) < 5 /\ call.err = "panic"

(***************************************************************************)
(* C16.  The log is append-only: across every step of any sequence of      *)
(* AppendEvent and EncodeCEL calls on one CEL (and of the decoding of the  *)
(* bytes written), the records before the step are a prefix of the records *)
(* after it; a successful AppendEvent lengthens the log by exactly one     *)
(* record, a failed one and EncodeCEL leave it as it was.                  *)
(***************************************************************************)
IsPrefix(p, q) == Len(p) <= Len(q) /\ SubSeq(q, 1, Len(p)) = p

C16_AppendOnly ==
    [][ /\ IsPrefix(Records, Records')
        /\ (call'.op = "AppendEvent" /\ call'.err = nil)
              => Len(Records') = Len(Records) + 1
        /\ (call'.op = "AppendEvent" /\ call'.err # nil) => Records' = Records
        /\ call'.op = "EncodeCEL" => Records' = Records ]_vars

\* A log of two records has been encoded: two appends, the second on a log
\* that was not empty, then EncodeCEL.
C16_Witness ==
    /\ call.op = "EncodeCEL" /\ call.c = Records
    /\ Len(Records) = 2 /\ buf # <<>>

(***************************************************************************)
(* C17.  Caller serialization of appends is needed and is enough.  Enough: *)
(* while every call of AppendEvent was made under the callers' mutex, in   *)
(* every interleaving of the producers each record's RECNUM is its list    *)
(* position and the log holds exactly the records of the calls that        *)
(* returned nil.  Needed: AppendEvent reads len(c.Records) and appends     *)
(* without a lock of its own, so with calls made without the mutex a log   *)
(* with two records of the same RECNUM, and a log that lost an appended    *)
(* record, are reachable.                                                  *)
(***************************************************************************)
C17_SerializedAppendsKeepOrder ==
    ~producers.unlocked =>
        /\ \A i \in 1..Len(Records) :
              UnmarshalRecNum(Records[i].RECNUM) = [recnum |-> i - 1, err |-> nil]
        /\ Records = producers.appended

\* What fails without the mutex: the same two statements for every state.
C17_UnserializedAppendsKeepOrder ==
    /\ \A i \in 1..Len(Records) :
          UnmarshalRecNum(Records[i].RECNUM) = [recnum |-> i - 1, err |-> nil]
    /\ (\A p \in Producers : producers.pc[p] = "idle")
          => Len(Records) = Len(producers.appended)

\* Every call so far was made under the mutex, and the log holds a record of
\* producer 1, then one of producer 2, then one of producer 1.
C17_Witness ==
    /\ ~producers.unlocked
    /\ Len(Records) = 3
    /\ Records[1].Content = ProducerEvent(1).tlv
    /\ Records[2].Content = ProducerEvent(2).tlv
    /\ Records[3].Content = ProducerEvent(1).tlv

\* Without the mutex: both producers have returned nil and the log holds
\* their two records under the same RECNUM.
C17_WitnessDuplicateRecnum ==
    /\ producers.unlocked
    /\ \A p \in Producers : producers.pc[p] = "idle"
    /\ Len(Records) = 2 /\ Len(producers.appended) = 2
    /\ Records[1].RECNUM = Records[2].RECNUM
    /\ Records[1].Content # Records[2].Content

\* Without the mutex: both producers have returned nil and the log holds one
\* record.
C17_WitnessLostRecord ==
    /\ producers.unlocked
    /\ \A p \in Producers : producers.pc[p] = "idle"
    /\ Len(producers.appended) = 2 /\ Len(Records) = 1

(***************************************************************************)
(* C18.  Record creation (createCELR with createDigestField) fails and     *)
(* returns no record if the digest map is empty or if the byte length of   *)
(* any digest differs from the digest size of its hash algorithm.          *)
(* createDigestField checks the lengths inside its loop over the map and   *)
(* nothing checks that the map has an entry: for the empty map the loop    *)
(* does not run and a record with an empty DIGESTS field is returned.      *)
(***************************************************************************)
WrongLength(digestsmap) ==
    \E h \in DOMAIN digestsmap : Len(digestsmap[h]) # HashSize(h)

C18_CreateFailsOnBadDigests ==
    (call.op = "createCELR"
       /\ (DOMAIN call.digestsmap = {} \/ WrongLength(call.digestsmap)))
       => (call.err # nil /\ call.celr = ZeroRecord)

\* What does hold: a digest of the wrong length fails the creation, whatever
\* the order in which the map is visited.
C18_WrongLengthFails ==
    (call.op = "createCELR" /\ WrongLength(call.digestsmap))
       => (call.err # nil /\ call.celr = ZeroRecord)

\* createCELR was given the empty map and returned a record.
C18_WitnessEmptyMap ==
    /\ call.op = "createCELR" /\ DOMAIN call.digestsmap = {}
    /\ call.err = nil /\ call.celr.Digests = TLV(digestsTypeValue, <<>>)

(***************************************************************************)
(* C19.  AppendEvent is deterministic in its encoded output: two runs that *)
(* start from logs of equal length with the same pcr, the same list of two *)
(* or more hash algorithms and the same content produce records whose      *)
(* EncodeCELR bytes are identical; the order of the nested digest TLVs is  *)
(* a function of the inputs, not of the iteration order of the digest map. *)
(* createDigestField ranges over a Go map, whose order differs from run to *)
(* run: the record of the state is compared with the record of every other *)
(* run of the same call.                                                   *)
(***************************************************************************)
OtherRuns(c) ==
    { AppendEvent(c.c, c.pcr, c.hashAlgos, c.event, order) :
        order \in Orders(Range(c.hashAlgos)) }

C19_DeterministicEncoding ==
    (call.op = "AppendEvent" /\ call.err = nil) =>
        \A other \in OtherRuns(call) :
            /\ other.err = nil
            /\ EncodeCELR(other.Records[Len(other.Records)], <<>>)
                  = EncodeCELR(Records[Len(Records)], <<>>)

\* What does hold: with one hash algorithm the bytes are the same in every
\* run, and with two the runs differ in nothing but the DIGESTS value.
C19_SingleAlgorithmDeterministic ==
    (call.op = "AppendEvent" /\ call.err = nil) =>
        \A other \in OtherRuns(call) :
            LET r == other.Records[Len(other.Records)]
                mine == Records[Len(Records)]
            IN  /\ other.err = nil
                /\ Cardinality(Range(call.hashAlgos)) = 1 => r = mine
                /\ r.RECNUM = mine.RECNUM /\ r.PCR = mine.PCR /\ r.Content = mine.Content
                /\ UnmarshalDigests(r.Digests) = UnmarshalDigests(mine.Digests)

\* AppendEvent with SHA-1 and SHA-256 has stored a record whose DIGESTS field
\* holds the SHA-256 digest first.
C19_WitnessTwoAlgorithms ==
    /\ call.op = "AppendEvent" /\ call.err = nil
    /\ call.hashAlgos = <<"SHA1", "SHA256">>
    /\ Records[Len(Records)].Digests.Value[1] = 11

(***************************************************************************)
(* C20.  For every integer pcr passed to AppendEvent, a successful call    *)
(* stores a PCR TLV from which UnmarshalPCR returns that same pcr; no      *)
(* argument outside 0..255 is reduced modulo 256 and recorded as another   *)
(* register.  The code converts with uint8(pcr) and checks nothing.        *)
(***************************************************************************)
C20_PCRStoredAsGiven ==
    (call.op = "AppendEvent" /\ call.err = nil) =>
        UnmarshalPCR(Records[Len(Records)].PCR) = [pcrNum |-> call.pcr, err |-> nil]

\* What does hold: the register stored is pcr modulo 256, which is pcr for
\* the arguments in 0..255.
C20_PCRStoredModulo256 ==
    (call.op = "AppendEvent" /\ call.err = nil) =>
        /\ UnmarshalPCR(Records[Len(Records)].PCR) = [pcrNum |-> call.pcr % 256, err |-> nil]
        /\ call.pcr \in 0..255 =>
              UnmarshalPCR(Records[Len(Records)].PCR) = [pcrNum |-> call.pcr, err |-> nil]

\* AppendEvent was given 256 and has stored register 0.
C20_WitnessTruncated ==
    /\ call.op = "AppendEvent" /\ call.err = nil /\ call.pcr = 256
    /\ Records[Len(Records)].PCR = TLV(pcrTypeValue, <<0>>)

=============================================================================
